---- MODULE Spec2Model ----
(***************************************************************************)
(* A model of the three lossless codecs of the compression library: RLE    *)
(* (src/src/rle.rs), LZ77 (src/src/lz77.rs) and Huffman                    *)
(* (src/src/huffman.rs).  A byte buffer is a sequence of numbers 0..255,   *)
(* a Rust Result is a record [ok, val, err].  A behaviour is one caller:   *)
(* it compresses a buffer and decompresses what it got, or decompresses a  *)
(* buffer that compress did not write.  Huffman::compress is one action;   *)
(* the loops of the other calls take one action per iteration.  Indices    *)
(* are 0-based as in the source, sequences 1-based.                        *)
(***************************************************************************)
EXTENDS Integers, Sequences, FiniteSets, TLC

\* ------------------------------------------------------------------ bounds

\* Longest buffer enumerated exhaustively over ByteVals.
MaxLen == 5

\* Longest run of one byte among the long buffers (beyond the u8 range).
MaxRun == 300

\* Most tokens in an LZ77 buffer that did not come from compress.
MaxTokens == 2

\* Largest original length declared in the header of such a buffer.
MaxDeclared == 5

\* Largest bit count declared in the header of a Huffman buffer that did
\* not come from compress.
MaxBits == 9

\* The byte values buffers are built from: 0 (the literal of a match that
\* reaches the end of the input, and the internal-node marker), 1 (the
\* leaf marker) and 255.
ByteVals == {0, 1, 255}

\* ------------------------------------------------------- Result and integers

Ok(v) == [ok |-> TRUE, val |-> v, err |-> "none"]

Err(e) == [ok |-> FALSE, val |-> <<>>, err |-> e]

\* No call has returned yet.
Pending == [ok |-> FALSE, val |-> <<>>, err |-> "pending"]

U8_MAX == 255

U16_MAX == 65535

Min(a, b) == IF a < b THEN a ELSE b

\* usize::saturating_sub
saturating_sub(a, b) == IF a > b THEN a - b ELSE 0

\* u8::try_from(n).unwrap_or(u8::MAX)
u8_try_from_or_max(n) == IF n <= U8_MAX THEN n ELSE U8_MAX

\* u16::try_from(n).unwrap_or(u16::MAX)
u16_try_from_or_max(n) == IF n <= U16_MAX THEN n ELSE U16_MAX

\* u32::try_from(n).unwrap_or(u32::MAX); u32::MAX is 65536 * 65535 + 65535,
\* written in 16-bit halves.
u32_try_from_or_max(n) ==
    IF n \div 65536 <= U16_MAX THEN n ELSE 65536 * U16_MAX + U16_MAX

\* u16::to_le_bytes
u16_to_le_bytes(n) == << n % 256, (n \div 256) % 256 >>

\* u16::from_le_bytes
u16_from_le_bytes(b) == b[1] + 256 * b[2]

\* u32::to_le_bytes
u32_to_le_bytes(n) ==
    << n % 256, (n \div 256) % 256, (n \div 65536) % 256, (n \div 16777216) % 256 >>

\* u32::from_le_bytes
u32_from_le_bytes(b) == b[1] + 256 * b[2] + 65536 * b[3] + 16777216 * b[4]

\* std::iter::repeat_n(byte, n) collected
repeat_n(byte, n) == [k \in 1..n |-> byte]

\* ------------------------------------------------------------------- RLE

MAX_RUN_LENGTH == 255

\* A run that is not cut where the byte changes.
rle_run_continues_any_byte(data, i, run_length) ==
    /\ i + run_length < Len(data)
    /\ run_length < MAX_RUN_LENGTH

\* A run that is cut one short of MAX_RUN_LENGTH.
rle_run_continues_short(data, i, run_length) ==
    /\ i + run_length < Len(data)
    /\ data[i + run_length + 1] = data[i + 1]
    /\ run_length < MAX_RUN_LENGTH - 1

\* A run tested on its last byte instead of the byte after it.
rle_run_continues_off_by_one(data, i, run_length) ==
    /\ i + run_length < Len(data)
    /\ data[i + run_length] = data[i + 1]
    /\ run_length < MAX_RUN_LENGTH

\* The guard of the inner while loop of Rle::compress; i is the 0-based
\* index of the source, sequences are 1-based.
rle_run_continues(data, i, run_length) ==
    /\ i + run_length < Len(data)
    /\ data[i + run_length + 1] = data[i + 1]
    /\ run_length < MAX_RUN_LENGTH

\* The inner while loop of Rle::compress started at run_length = lo: the
\* first run_length in lo..hi-1 at which the guard fails, hi if there is
\* none.  The range is searched by halves, left half first, which visits
\* the values in the loop's order and keeps the evaluation shallow.
RECURSIVE rle_run_stop(_, _, _, _)
rle_run_stop(data, i, lo, hi) ==
    IF lo >= hi THEN hi
    ELSE IF hi = lo + 1
    THEN IF rle_run_continues(data, i, lo) THEN hi ELSE lo
    ELSE LET mid  == (lo + hi) \div 2
             left == rle_run_stop(data, i, lo, mid)
         IN  IF left < mid THEN left ELSE rle_run_stop(data, i, mid, hi)

\* run_length when the inner while loop ends; the guard fails at the end
\* of the data at the latest.
rle_run_length(data, i) == rle_run_stop(data, i, 1, Len(data) - i)

\* Any length of input accepted.
rle_length_unchecked(data) == FALSE

\* The check of Rle::decompress on the length of its input.
rle_length_odd(data) == Len(data) % 2 # 0

\* input.chunks_exact(2): the number of chunks.
rle_num_chunks(data) == Len(data) \div 2

\* ------------------------------------------------------------------ LZ77

DEFAULT_WINDOW_SIZE == 4096

DEFAULT_LOOKAHEAD_SIZE == 18

MIN_MATCH_LENGTH == 3

\* Token::new_literal
new_literal(byte) == [offset |-> 0, length |-> 0, next |-> byte]

\* Token::new_match
new_match(offset, length, next) == [offset |-> offset, length |-> length, next |-> next]

\* Token::to_bytes
to_bytes(token) == u16_to_le_bytes(token.offset) \o << token.length, token.next >>

\* Token::from_bytes on a 4-byte chunk
from_bytes(bytes) ==
    [offset |-> u16_from_le_bytes(<< bytes[1], bytes[2] >>),
     length |-> bytes[3],
     next   |-> bytes[4]]

\* Lz77::new
Lz77_new == [window_size |-> DEFAULT_WINDOW_SIZE, lookahead_size |-> DEFAULT_LOOKAHEAD_SIZE]

\* Lz77::with_config
with_config(window_size, lookahead_size) ==
    [window_size |-> window_size, lookahead_size |-> lookahead_size]

\* The guard of the while loop of find_longest_match; start and position
\* are 0-based.
match_continues(self, data, start, position, lookahead_end, length) ==
    /\ position + length < lookahead_end
    /\ data[start + length + 1] = data[position + length + 1]
    /\ length < self.lookahead_size

\* The while loop of find_longest_match started at length = lo: the first
\* length in lo..hi-1 at which the guard fails, hi if there is none
\* (searched by halves, left half first).
RECURSIVE match_stop(_, _, _, _, _, _, _)
match_stop(self, data, start, position, lookahead_end, lo, hi) ==
    IF lo >= hi THEN hi
    ELSE IF hi = lo + 1
    THEN IF match_continues(self, data, start, position, lookahead_end, lo) THEN hi ELSE lo
    ELSE LET mid  == (lo + hi) \div 2
             left == match_stop(self, data, start, position, lookahead_end, lo, mid)
         IN  IF left < mid THEN left
             ELSE match_stop(self, data, start, position, lookahead_end, mid, hi)

\* length when the while loop ends; the guard fails at lookahead_end at
\* the latest.
match_length(self, data, start, position, lookahead_end) ==
    match_stop(self, data, start, position, lookahead_end, 0,
               saturating_sub(lookahead_end, position))

\* A match of any length taken, also one shorter than MIN_MATCH_LENGTH.
match_try_any_length(self, data, position, lookahead_end, start, best) ==
    LET length == match_length(self, data, start, position, lookahead_end)
    IN  IF length > best[2]
        THEN << position - start, length >>
        ELSE best

\* The body of the for loop of find_longest_match at `start`: the best
\* match is replaced only by a strictly longer one.
match_try(self, data, position, lookahead_end, start, best) ==
    LET length == match_length(self, data, start, position, lookahead_end)
    IN  IF length >= MIN_MATCH_LENGTH /\ length > best[2]
        THEN << position - start, length >>
        ELSE best

\* The for loop of find_longest_match over start in lo..hi-1, in
\* increasing order: the range is split in halves and the left half is
\* run first, its result being the best the right half starts from (the
\* test on left[2], which always holds, has it evaluated first).
RECURSIVE match_search(_, _, _, _, _, _, _)
match_search(self, data, position, lookahead_end, lo, hi, best) ==
    IF lo >= hi THEN best
    ELSE IF hi = lo + 1
    THEN match_try(self, data, position, lookahead_end, lo, best)
    ELSE LET mid  == (lo + hi) \div 2
             left == match_search(self, data, position, lookahead_end, lo, mid, best)
         IN  IF left[2] >= 0
             THEN match_search(self, data, position, lookahead_end, mid, hi, left)
             ELSE left

\* Lz77::find_longest_match: << best_offset, best_length >>
find_longest_match(self, data, position) ==
    LET search_start  == saturating_sub(position, self.window_size)
        lookahead_end == Min(position + self.lookahead_size, Len(data))
    IN  match_search(self, data, position, lookahead_end, search_start, position,
                     << 0, 0 >>)

\* The cursor moved past the match only, not past the literal after it.
lz77_compress_step_no_skip(self, data, position) ==
    LET m      == find_longest_match(self, data, position)
        offset == m[1]
        length == m[2]
        next_pos == position + length
    IN  IF length >= MIN_MATCH_LENGTH
        THEN [found |-> m,
              token |-> new_match(u16_try_from_or_max(offset),
                                  u8_try_from_or_max(length),
                                  IF next_pos < Len(data) THEN data[next_pos + 1] ELSE 0),
              position |-> next_pos]
        ELSE [found |-> m,
              token |-> new_literal(data[position + 1]),
              position |-> position + 1]

\* An iteration that leaves the cursor where it is after a literal.
lz77_compress_step_no_advance(self, data, position) ==
    LET m      == find_longest_match(self, data, position)
        offset == m[1]
        length == m[2]
        next_pos == position + length
    IN  IF length >= MIN_MATCH_LENGTH
        THEN [found |-> m,
              token |-> new_match(u16_try_from_or_max(offset),
                                  u8_try_from_or_max(length),
                                  IF next_pos < Len(data) THEN data[next_pos + 1] ELSE 0),
              position |-> IF next_pos < Len(data) THEN next_pos + 1 ELSE next_pos]
        ELSE [found |-> m,
              token |-> new_literal(data[position + 1]),
              position |-> position]

\* One iteration of the while loop of Lz77::compress at cursor `position`:
\* what find_longest_match returned, the token pushed and the new cursor.
lz77_compress_step(self, data, position) ==
    LET m      == find_longest_match(self, data, position)
        offset == m[1]
        length == m[2]
        next_pos == position + length
    IN  IF length >= MIN_MATCH_LENGTH
        THEN [found |-> m,
              token |-> new_match(u16_try_from_or_max(offset),
                                  u8_try_from_or_max(length),
                                  IF next_pos < Len(data) THEN data[next_pos + 1] ELSE 0),
              position |-> IF next_pos < Len(data) THEN next_pos + 1 ELSE next_pos]
        ELSE [found |-> m,
              token |-> new_literal(data[position + 1]),
              position |-> position + 1]

\* The final for loop of Lz77::compress: the tokens as bytes, 4 each.
tokens_to_bytes(tokens) ==
    [k \in 1..(4 * Len(tokens)) |-> to_bytes(tokens[((k - 1) \div 4) + 1])[((k - 1) % 4) + 1]]

\* The end of Lz77::compress: the header and the tokens.
lz77_frame(data, tokens) ==
    u32_to_le_bytes(u32_try_from_or_max(Len(data))) \o tokens_to_bytes(tokens)

\* token_data.chunks_exact(4): the number of chunks and the k-th (0-based).
num_chunks(data) == (Len(data) - 4) \div 4

chunk_at(data, k) == SubSeq(data, 4 + 4 * k + 1, 4 + 4 * k + 4)

\* --------------------------------------------------------------- Huffman

\* HuffmanNode::new_leaf
new_leaf(byte, frequency) == [kind |-> "Leaf", frequency |-> frequency, byte |-> byte]

\* An internal node that takes its left child's frequency.
new_internal_left_frequency(left, right) ==
    [kind |-> "Internal", frequency |-> left.frequency,
     left |-> left, right |-> right]

\* HuffmanNode::new_internal
new_internal(left, right) ==
    [kind |-> "Internal", frequency |-> left.frequency + right.frequency,
     left |-> left, right |-> right]

\* A tree of one leaf given the empty code.
RECURSIVE build_codes_empty_root(_, _)
build_codes_empty_root(node, prefix) ==
    IF node.kind = "Leaf"
    THEN node.byte :> prefix
    ELSE build_codes_empty_root(node.right, Append(prefix, TRUE))
            @@ build_codes_empty_root(node.left, Append(prefix, FALSE))

\* HuffmanNode::build_codes: the map byte -> code.  A later insert of the
\* same key replaces the earlier one, so the right subtree's entries win.
RECURSIVE build_codes(_, _)
build_codes(node, prefix) ==
    IF node.kind = "Leaf"
    THEN IF prefix = <<>>
         THEN node.byte :> << FALSE >>
         ELSE node.byte :> prefix
    ELSE build_codes(node.right, Append(prefix, TRUE))
            @@ build_codes(node.left, Append(prefix, FALSE))

\* build_frequency_table
build_frequency_table(data) ==
    [b \in {data[k] : k \in 1..Len(data)} |->
        Cardinality({k \in 1..Len(data) : data[k] = b})]

\* BinaryHeap::pop under Ord for HuffmanNode, which compares frequencies
\* only (reversed): any node of least frequency may come out.
heap_pop(heap) == {n \in heap : \A m \in heap : n.frequency <= m.frequency}

\* The while loop of build_huffman_tree from a heap: every tree that some
\* order of popping equal-frequency nodes produces.  The nodes of a heap
\* hold disjoint leaves, so the heap is a set.
RECURSIVE build_from_heap(_)
build_from_heap(heap) ==
    IF Cardinality(heap) <= 1
    THEN heap
    ELSE UNION { UNION { build_from_heap((heap \ {left, right})
                                            \cup {new_internal(left, right)})
                         : right \in heap_pop(heap \ {left}) }
                 : left \in heap_pop(heap) }

\* build_huffman_tree: the set of possible results (empty for None).
build_huffman_tree(freq_table) ==
    build_from_heap({new_leaf(b, freq_table[b]) : b \in DOMAIN freq_table})

\* serialize_tree
RECURSIVE serialize_tree(_)
serialize_tree(node) ==
    IF node.kind = "Leaf"
    THEN << 1, node.byte >>
    ELSE << 0 >> \o serialize_tree(node.left) \o serialize_tree(node.right)

\* A leaf read without its byte: the marker alone makes the leaf, of the
\* byte at the marker's place, and pos moves by one.
RECURSIVE deserialize_tree_short_leaf(_, _)
deserialize_tree_short_leaf(data, pos) ==
    IF pos >= Len(data)
    THEN [ok |-> FALSE, node |-> new_leaf(0, 0), pos |-> pos]
    ELSE IF data[pos + 1] = 1
    THEN [ok |-> TRUE, node |-> new_leaf(data[pos + 1], 0), pos |-> pos + 1]
    ELSE LET left == deserialize_tree_short_leaf(data, pos + 1)
         IN  IF ~left.ok THEN left
             ELSE LET right == deserialize_tree_short_leaf(data, left.pos)
                  IN  IF ~right.ok THEN right
                      ELSE [ok |-> TRUE, node |-> new_internal(left.node, right.node),
                            pos |-> right.pos]

\* deserialize_tree: [ok, node, pos]; pos is 0-based.
RECURSIVE deserialize_tree(_, _)
deserialize_tree(data, pos) ==
    IF pos >= Len(data)
    THEN [ok |-> FALSE, node |-> new_leaf(0, 0), pos |-> pos]
    ELSE IF data[pos + 1] = 1
    THEN IF pos + 1 >= Len(data)
         THEN [ok |-> FALSE, node |-> new_leaf(0, 0), pos |-> pos + 1]
         ELSE [ok |-> TRUE, node |-> new_leaf(data[pos + 2], 0), pos |-> pos + 2]
    ELSE LET left == deserialize_tree(data, pos + 1)
         IN  IF ~left.ok THEN left
             ELSE LET right == deserialize_tree(data, left.pos)
                  IN  IF ~right.ok THEN right
                      ELSE [ok |-> TRUE, node |-> new_internal(left.node, right.node),
                            pos |-> right.pos]

\* 1 << n
shl1(n) == 2 ^ n

\* The inner loop with the bits placed least significant first.
RECURSIVE chunk_byte_lsb_first(_, _, _)
chunk_byte_lsb_first(chunk, i, byte) ==
    IF i >= Len(chunk) THEN byte
    ELSE chunk_byte_lsb_first(chunk, i + 1,
                              IF chunk[i + 1] THEN byte + shl1(i) ELSE byte)

\* The inner loop of bits_to_bytes over one chunk of at most 8 bits.
RECURSIVE chunk_byte(_, _, _)
chunk_byte(chunk, i, byte) ==
    IF i >= Len(chunk) THEN byte
    ELSE chunk_byte(chunk, i + 1, IF chunk[i + 1] THEN byte + shl1(7 - i) ELSE byte)

\* bits_to_bytes: one byte per chunk of bits.chunks(8), most significant
\* bit first.
bits_to_bytes(bits) ==
    [k \in 1..((Len(bits) + 7) \div 8) |->
        chunk_byte(SubSeq(bits, 8 * (k - 1) + 1, Min(8 * k, Len(bits))), 0, 0)]

\* bytes_to_bits: the first num_bits bits of the bytes.
bytes_to_bits(bytes, num_bits) ==
    [k \in 1..Min(num_bits, 8 * Len(bytes)) |->
        (bytes[((k - 1) \div 8) + 1] \div shl1(7 - ((k - 1) % 8))) % 2 = 1]

\* The for loop of Huffman::compress over input[lo..hi] (1-based, both
\* included): the codes of the bytes, concatenated in order.  The range
\* is split in halves to keep the evaluation shallow.
RECURSIVE encode_bits(_, _, _, _)
encode_bits(codes, data, lo, hi) ==
    IF lo > hi THEN <<>>
    ELSE IF lo = hi THEN codes[data[lo]]
    ELSE LET mid == (lo + hi) \div 2
         IN  encode_bits(codes, data, lo, mid) \o encode_bits(codes, data, mid + 1, hi)

\* Huffman::compress of a non-empty input, given the tree that
\* build_huffman_tree returned.
huffman_compress_with(tree, data) ==
    LET codes == build_codes(tree, <<>>)
        bits  == encode_bits(codes, data, 1, Len(data))
    IN  Ok(serialize_tree(tree)
           \o u32_to_le_bytes(u32_try_from_or_max(Len(data)))
           \o u32_to_le_bytes(u32_try_from_or_max(Len(bits)))
           \o bits_to_bytes(bits))

\* build_huffman_tree has no tree to return.
NoTree == new_leaf(0, 0)

\* Huffman::compress without the empty-input shortcut.
huffman_compress_no_shortcut(data) ==
    LET trees == build_huffman_tree(build_frequency_table(data))
    IN  IF trees = {} THEN {[tree |-> NoTree, result |-> Err("InvalidInput")]}
        ELSE {[tree |-> t, result |-> huffman_compress_with(t, data)] : t \in trees}

\* Huffman::compress: the possible outcomes, one per tree that
\* build_huffman_tree can return, each with that tree.
huffman_compress(data) ==
    IF data = <<>> THEN {[tree |-> NoTree, result |-> Ok(<<>>)]}
    ELSE LET trees == build_huffman_tree(build_frequency_table(data))
         IN  IF trees = {} THEN {[tree |-> NoTree, result |-> Err("InvalidInput")]}
             ELSE {[tree |-> t, result |-> huffman_compress_with(t, data)] : t \in trees}

\* No pending leaf pushed.
push_pending_never(out, node, declared) == out

\* The pending leaf pushed after the while loop of Huffman::decompress
\* when the output is still short.
push_pending_leaf(out, node, declared) ==
    IF node.kind = "Leaf" /\ Len(out) < declared
    THEN Append(out, node.byte)
    ELSE out

\* ------------------------------------------------------------ the buffers

\* Every buffer of at most MaxLen bytes over ByteVals.
ShortBuffers == UNION { [1..n -> ByteVals] : n \in 0..MaxLen }

\* Runs at the u8 limit and beyond it, alone or followed by another byte.
RunLengths ==
    {MAX_RUN_LENGTH, MAX_RUN_LENGTH + 1, MAX_RUN_LENGTH + 2, MaxRun, 2 * MAX_RUN_LENGTH}

LongBuffers ==
    { repeat_n(255, n) \o tail : n \in RunLengths, tail \in {<<>>, << 1 >>} }

\* The inputs of test_compress_max_run_length, of
\* test_find_longest_match_with_match (b"abcabc"), of
\* test_roundtrip_repeated (b"abcabcabcabc") and of test_roundtrip_all_same
\* (100 bytes 0xAA).
TestBuffers ==
    { repeat_n(170, 300),
      << 97, 98, 99, 97, 98, 99 >>,
      << 97, 98, 99, 97, 98, 99, 97, 98, 99, 97, 98, 99 >>,
      repeat_n(170, 100) }

\* The buffers callers hand to compress of any codec.
Inputs == ShortBuffers \cup LongBuffers \cup TestBuffers

\* The input of test_compression_ratio_non_repeated: (0..100).collect().
Increasing == [k \in 1..100 |-> k - 1]

\* The inputs of the Huffman tests: b"hello" of test_roundtrip_simple
\* (four distinct bytes, three of them of frequency 1),
\* b"aaaaaabbbbcccc" of test_roundtrip_repeated, and the 1000 bytes 0xAA
\* of test_compression_reduces_size_for_repeated.
HuffmanTestBuffers ==
    { << 104, 101, 108, 108, 111 >>,
      repeat_n(97, 6) \o repeat_n(98, 4) \o repeat_n(99, 4),
      repeat_n(170, 1000) }

\* The buffers callers hand to compress of codec c: for Rle also the
\* increasing sequence, for Huffman also the inputs of its tests.
InputsOf(c) ==
    Inputs \cup (IF c = "Rle" THEN {Increasing}
                 ELSE IF c = "Huffman" THEN HuffmanTestBuffers
                 ELSE {})

\* The Lz77 instances callers build: the default, the test's small window,
\* sizes of 0 and below MIN_MATCH_LENGTH, and sizes beyond the u8 length
\* field and the u16 offset field of a token.
Lz77Instances ==
    {Lz77_new, with_config(16, 8), with_config(0, 0), with_config(1, 2),
     with_config(2, 4), with_config(DEFAULT_WINDOW_SIZE, MaxRun),
     with_config(70000, DEFAULT_LOOKAHEAD_SIZE)}

\* Token streams of buffers that did not come from compress.
ForeignTokens ==
    { new_match(offset, length, 255) : offset \in {0, 1, 2, 256}, length \in {0, 1, 3} }

ForeignTokenSeqs == UNION { [1..n -> ForeignTokens] : n \in 0..MaxTokens }

\* Well-framed LZ77 buffers: a header and whole tokens.
Lz77Framed ==
    { u32_to_le_bytes(declared) \o tokens_to_bytes(tokens) :
        declared \in 0..MaxDeclared, tokens \in ForeignTokenSeqs }

\* The same with 1 to 3 bytes cut off the end, for at most two tokens.
Lz77Cut ==
    { SubSeq(b, 1, Len(b) - r) : b \in {f \in Lz77Framed : Len(f) <= 12}, r \in 1..3 }

\* Trees of Huffman buffers that did not come from compress: one leaf,
\* two leaves, and three leaves with codes of 1 and 2 bits.
ForeignTrees ==
    { new_leaf(255, 0),
      new_internal(new_leaf(0, 0), new_leaf(1, 0)),
      new_internal(new_leaf(1, 0), new_internal(new_leaf(0, 0), new_leaf(255, 0))) }

\* Their packed bits: at most two bytes, each 0b00000000 or 0b10100000.
ForeignPacked == UNION { [1..n -> {0, 160}] : n \in 0..2 }

\* Well-framed Huffman buffers: a tree, the two length fields and packed
\* bytes, which may be fewer or more than the declared bit count needs.
HuffmanFramed ==
    { serialize_tree(t) \o u32_to_le_bytes(declared) \o u32_to_le_bytes(num_bits)
          \o packed :
        t \in ForeignTrees, declared \in 0..MaxDeclared, num_bits \in 0..MaxBits,
        packed \in ForeignPacked }

\* A tree and its two length fields with bytes cut off the end, into the
\* length fields and into the tree.
HuffmanCut ==
    { SubSeq(b, 1, Len(b) - r) :
        b \in { serialize_tree(t) \o u32_to_le_bytes(1) \o u32_to_le_bytes(1) :
                  t \in ForeignTrees },
        r \in 1..(4 + 4 + 4) }

\* The buffers handed to decompress that compress did not write.
ForeignBuffers(c) ==
    IF c = "Lz77"
    THEN {b \in ShortBuffers : Len(b) < 4} \cup Lz77Framed \cup Lz77Cut
    ELSE IF c = "Huffman"
    THEN ShortBuffers \cup HuffmanFramed \cup HuffmanCut
    ELSE ShortBuffers

Codecs == {"Rle", "Lz77", "Huffman"}

\* ----------------------------------------------------------------- state

VARIABLES
    codec,          \* which codec the calls are made on
    self,           \* the Lz77 instance: [window_size, lookahead_size]
    origin,         \* "compress": decompress is given what compress returned
                    \* "foreign": decompress is given any buffer
                    \* "bits": bits_to_bytes is given any bit sequence
    input,          \* the buffer handed to compress
    cres,           \* what compress returned
    buf,            \* the buffer handed to decompress
    dres,           \* what decompress returned
    pc,             \* where the call is: "compress", "rle_scan", "lz_scan",
                    \* "decompress", "rle_loop", "lz_loop", "lz_copy",
                    \* "lz_next", "huff_loop", "done";
                    \* "match" before a lone call of find_longest_match;
                    \* "pack", "unpack" before lone calls of bits_to_bytes
                    \* and bytes_to_bits
    tree,           \* Huffman::compress: the tree build_huffman_tree returned
    position,       \* Lz77::compress: the cursor
    tokens,         \* Lz77::compress: the tokens pushed so far
    cursors,        \* Lz77::compress: the cursor at which each was pushed
    best_offset,    \* find_longest_match: the offset it returned last
    best_length,    \* find_longest_match: the length it returned last
    original_len,   \* decompress: the length declared in the header
    output,         \* Rle::compress and decompress: the output built so far
    chunk,          \* decompress of Rle and Lz77: 0-based index of the
                    \* current chunk (pair or token)
    start,          \* Lz77::decompress: where the current copy reads from
    i,              \* Rle::compress: the index of the outer loop;
                    \* Lz77::decompress: the copy loop's counter
    dtree,          \* Huffman::decompress: the deserialized tree
    bits,           \* Huffman::decompress: the unpacked bits
    current_node,   \* Huffman::decompress: the node the walk is at
    bit_idx,        \* Huffman::decompress: the next bit to read
    read_pos,       \* Huffman::decompress and deserialize_tree: pos, the
                    \* number of bytes read so far
    calls           \* calls in progress at the same time on `self`, Rle and
                    \* Huffman: each call's arguments, locals and result

callvars == << codec, self, origin, input, calls >>

encvars == << tree, position, tokens, cursors, best_offset, best_length >>

lzvars == << chunk, start, i >>

huffvars == << dtree, bits, current_node, bit_idx, read_pos >>

decvars == << original_len, output, lzvars, huffvars >>

vars == << callvars, cres, buf, dres, pc, encvars, decvars >>

Init ==
    /\ codec \in Codecs
    /\ self \in IF codec = "Lz77" THEN Lz77Instances ELSE {Lz77_new}
    /\ \/ /\ origin = "compress"
          /\ input \in InputsOf(codec)
          /\ buf = <<>>
          /\ pc = "compress"
       \/ /\ origin = "foreign"
          /\ input = <<>>
          /\ buf \in ForeignBuffers(codec)
          /\ pc = "decompress"
    /\ cres = Pending
    /\ dres = Pending
    /\ tree = NoTree
    /\ position = 0
    /\ tokens = <<>>
    /\ cursors = <<>>
    /\ best_offset = 0
    /\ best_length = 0
    /\ original_len = 0
    /\ output = <<>>
    /\ chunk = 0
    /\ start = 0
    /\ i = 0
    /\ dtree = NoTree
    /\ bits = <<>>
    /\ current_node = NoTree
    /\ bit_idx = 0
    /\ read_pos = 0
    /\ calls = <<>>

\* compress returns r: its Ok value is what the caller decompresses next.
CompressReturns(r) ==
    /\ cres' = r
    /\ buf' = r.val
    /\ pc' = IF r.ok THEN "decompress" ELSE "done"
    /\ UNCHANGED << callvars, dres, decvars >>

\* decompress returns r.
DecompressReturns(r) ==
    /\ dres' = r
    /\ pc' = "done"
    /\ UNCHANGED << callvars, cres, buf, encvars >>

\* ------------------------------------------------------------ RLE calls

\* Rle::compress up to the while loop: the empty-input shortcut.
RleCompressBegin ==
    /\ pc = "compress"
    /\ codec = "Rle"
    /\ IF input = <<>>
       THEN CompressReturns(Ok(<<>>)) /\ UNCHANGED encvars
       ELSE /\ output' = <<>>
            /\ i' = 0
            /\ pc' = "rle_scan"
            /\ UNCHANGED << callvars, cres, buf, dres, encvars, original_len, chunk,
                            start, huffvars >>

\* One iteration of the outer while loop of Rle::compress: the run at i
\* is counted, its record pushed and i moved past it.
RleCompressStep ==
    /\ pc = "rle_scan"
    /\ i < Len(input)
    /\ \E current_byte \in {input[i + 1]}, run_length \in {rle_run_length(input, i)} :
           /\ output' = output \o << run_length, current_byte >>
           /\ i' = i + run_length
    /\ UNCHANGED << callvars, cres, buf, dres, pc, encvars, original_len, chunk,
                    start, huffvars >>

\* Rle::compress after the while loop.
RleCompressEnd ==
    /\ pc = "rle_scan"
    /\ i >= Len(input)
    /\ CompressReturns(Ok(output))
    /\ UNCHANGED encvars

\* Rle::decompress up to the for loop: the empty-input shortcut and the
\* check of the length.
RleDecompressBegin ==
    /\ pc = "decompress"
    /\ codec = "Rle"
    /\ IF buf = <<>>
       THEN DecompressReturns(Ok(<<>>)) /\ UNCHANGED decvars
       ELSE IF rle_length_odd(buf)
       THEN DecompressReturns(Err("CorruptedData")) /\ UNCHANGED decvars
       ELSE /\ output' = <<>>
            /\ chunk' = 0
            /\ pc' = "rle_loop"
            /\ UNCHANGED << callvars, cres, buf, dres, encvars, original_len, start, i,
                            huffvars >>

\* One iteration of the for loop of Rle::decompress over chunks_exact(2).
RleDecompressChunk ==
    /\ pc = "rle_loop"
    /\ chunk < rle_num_chunks(buf)
    /\ LET count == buf[2 * chunk + 1]
           byte  == buf[2 * chunk + 2]
       IN  IF count = 0
           THEN DecompressReturns(Err("CorruptedData")) /\ UNCHANGED decvars
           ELSE /\ output' = output \o repeat_n(byte, count)
                /\ chunk' = chunk + 1
                /\ UNCHANGED << callvars, cres, buf, dres, pc, encvars, original_len,
                                start, i, huffvars >>

\* Rle::decompress after the for loop.
RleDecompressEnd ==
    /\ pc = "rle_loop"
    /\ chunk >= rle_num_chunks(buf)
    /\ DecompressReturns(Ok(output))
    /\ UNCHANGED decvars

\* ----------------------------------------------------------- LZ77 calls

\* Lz77::compress up to the while loop: the empty-input shortcut.
Lz77CompressBegin ==
    /\ pc = "compress"
    /\ codec = "Lz77"
    /\ IF input = <<>>
       THEN CompressReturns(Ok(<<>>)) /\ UNCHANGED encvars
       ELSE /\ tokens' = <<>>
            /\ cursors' = <<>>
            /\ position' = 0
            /\ pc' = "lz_scan"
            /\ UNCHANGED << callvars, cres, buf, dres, tree, best_offset, best_length,
                            decvars >>

\* One iteration of the while loop of Lz77::compress.
Lz77CompressStep ==
    /\ pc = "lz_scan"
    /\ position < Len(input)
    /\ \E s \in {lz77_compress_step(self, input, position)} :
           /\ best_offset' = s.found[1]
           /\ best_length' = s.found[2]
           /\ tokens' = Append(tokens, s.token)
           /\ cursors' = Append(cursors, position)
           /\ position' = s.position
    /\ UNCHANGED << callvars, cres, buf, dres, pc, tree, decvars >>

\* Lz77::compress after the while loop: the header and the tokens.
Lz77CompressEnd ==
    /\ pc = "lz_scan"
    /\ position >= Len(input)
    /\ CompressReturns(Ok(lz77_frame(input, tokens)))
    /\ UNCHANGED encvars

\* The token the for loop of Lz77::decompress is at.
token == from_bytes(chunk_at(buf, chunk))

\* The first framing check of Lz77::decompress: no room for the header.
header_missing(data) == Len(data) < 4

\* Token data of any length accepted.
token_data_unchecked(data) == FALSE

\* The second: the token data, input[4..], is not whole 4-byte tokens.
token_data_ragged(data) == (Len(data) - 4) % 4 # 0

\* Lz77::decompress up to the for loop: the empty-input shortcut, the two
\* framing checks and the header.
Lz77DecompressBegin ==
    /\ pc = "decompress"
    /\ codec = "Lz77"
    /\ IF buf = <<>>
       THEN DecompressReturns(Ok(<<>>)) /\ UNCHANGED decvars
       ELSE IF header_missing(buf)
       THEN DecompressReturns(Err("CorruptedData")) /\ UNCHANGED decvars
       ELSE IF token_data_ragged(buf)
       THEN DecompressReturns(Err("CorruptedData")) /\ UNCHANGED decvars
       ELSE /\ original_len' = u32_from_le_bytes(SubSeq(buf, 1, 4))
            /\ output' = <<>>
            /\ chunk' = 0
            /\ pc' = "lz_loop"
            /\ UNCHANGED << callvars, cres, buf, dres, encvars, start, i, huffvars >>

\* An offset checked against 0 only.
offset_valid_nonzero(offset, out) == offset # 0

\* Whether a match token's offset points into the output produced so far.
offset_valid(offset, out) == ~(offset = 0 \/ offset > Len(out))

\* The head of the for loop's body: read the token; for a match, check the
\* offset and set up the copy.
Lz77ReadToken ==
    /\ pc = "lz_loop"
    /\ chunk < num_chunks(buf)
    /\ IF token.length # 0
       THEN IF ~offset_valid(token.offset, output)
            THEN DecompressReturns(Err("CorruptedData")) /\ UNCHANGED decvars
            ELSE /\ start' = Len(output) - token.offset
                 /\ i' = 0
                 /\ pc' = "lz_copy"
                 /\ UNCHANGED << callvars, cres, buf, dres, encvars,
                                 original_len, output, chunk, huffvars >>
       ELSE /\ pc' = "lz_next"
            /\ UNCHANGED << callvars, cres, buf, dres, encvars, decvars >>

\* A copy loop that does not break on the declared length.
copy_continues_to_length(k, length, out, declared) == k < length

\* Whether the copy loop `for i in 0..length` runs its body once more:
\* it has iterations left and does not break on the declared length.
copy_continues(k, length, out, declared) == k < length /\ Len(out) < declared

\* The byte at `start` read at every iteration.
copy_byte_at_start(out, from, k) == out[from + 1]

\* The byte the copy loop reads at iteration k: output[start + i].
copy_byte(out, from, k) == out[from + k + 1]

\* One iteration of the copy loop: push output[start + i], or leave the
\* loop.  An index outside the output panics.
Lz77CopyByte ==
    /\ pc = "lz_copy"
    /\ IF copy_continues(i, token.length, output, original_len)
       THEN IF start + i >= 0 /\ start + i < Len(output)
            THEN /\ output' = Append(output, copy_byte(output, start, i))
                 /\ i' = i + 1
                 /\ UNCHANGED << callvars, cres, buf, dres, pc, encvars,
                                 original_len, chunk, start, huffvars >>
            ELSE DecompressReturns(Err("panic")) /\ UNCHANGED decvars
       ELSE /\ pc' = "lz_next"
            /\ UNCHANGED << callvars, cres, buf, dres, encvars, decvars >>

\* The trailing literal pushed whatever the length of the output.
push_next_always(out, next, declared) == Append(out, next)

\* The output after the token's trailing literal: pushed unless the
\* output has the declared length.
push_next(out, next, declared) ==
    IF Len(out) < declared THEN Append(out, next) ELSE out

\* The tail of the for loop's body, and on to the next token.
Lz77PushNext ==
    /\ pc = "lz_next"
    /\ output' = push_next(output, token.next, original_len)
    /\ chunk' = chunk + 1
    /\ pc' = "lz_loop"
    /\ UNCHANGED << callvars, cres, buf, dres, encvars, original_len, start, i, huffvars >>

\* An output of any length returned.
length_check_none(out, declared) == Ok(out)

\* What Lz77::decompress and Huffman::decompress return after their loop.
length_check(out, declared) ==
    IF Len(out) # declared THEN Err("CorruptedData") ELSE Ok(out)

\* After the for loop: the length check and the return.
Lz77Finish ==
    /\ pc = "lz_loop"
    /\ chunk >= num_chunks(buf)
    /\ DecompressReturns(length_check(output, original_len))
    /\ UNCHANGED decvars

\* -------------------------------------------------------- Huffman calls

\* Huffman::compress, with whichever tree build_huffman_tree returns.
HuffmanCompress ==
    /\ pc = "compress"
    /\ codec = "Huffman"
    /\ \E c \in huffman_compress(input) :
          /\ tree' = c.tree
          /\ CompressReturns(c.result)
    /\ UNCHANGED << position, tokens, cursors, best_offset, best_length >>

\* Huffman::decompress up to the while loop: the empty-input shortcut,
\* the tree, the two length fields and the bits.
HuffmanDecompressBegin ==
    /\ pc = "decompress"
    /\ codec = "Huffman"
    /\ \E t \in {deserialize_tree(buf, 0)} :
           IF buf = <<>>
           THEN DecompressReturns(Ok(<<>>)) /\ UNCHANGED decvars
           ELSE IF ~t.ok
           THEN DecompressReturns(Err("CorruptedData")) /\ UNCHANGED decvars
           ELSE IF t.pos + 8 > Len(buf)
           THEN DecompressReturns(Err("CorruptedData")) /\ UNCHANGED decvars
           ELSE /\ dtree' = t.node
                /\ original_len' = u32_from_le_bytes(SubSeq(buf, t.pos + 1, t.pos + 4))
                /\ bits' = bytes_to_bits(SubSeq(buf, t.pos + 9, Len(buf)),
                                         u32_from_le_bytes(SubSeq(buf, t.pos + 5, t.pos + 8)))
                /\ output' = <<>>
                /\ current_node' = t.node
                /\ bit_idx' = 0
                /\ read_pos' = t.pos + 8
                /\ pc' = "huff_loop"
                /\ UNCHANGED << callvars, cres, buf, dres, encvars, lzvars >>

\* The guard of the while loop of Huffman::decompress.
decode_continues(out, declared, idx, bs) == Len(out) < declared /\ idx < Len(bs)

\* One iteration of the while loop: on a leaf push its byte and go back
\* to the root, on an internal node follow the next bit.
HuffmanDecodeStep ==
    /\ pc = "huff_loop"
    /\ decode_continues(output, original_len, bit_idx, bits)
    /\ IF current_node.kind = "Leaf"
       THEN /\ output' = Append(output, current_node.byte)
            /\ current_node' = dtree
            /\ UNCHANGED bit_idx
       ELSE /\ current_node' = IF bits[bit_idx + 1] THEN current_node.right
                                                    ELSE current_node.left
            /\ bit_idx' = bit_idx + 1
            /\ UNCHANGED output
    /\ UNCHANGED << callvars, cres, buf, dres, pc, encvars, original_len, lzvars,
                    dtree, bits, read_pos >>

\* After the while loop: the pending leaf, the length check and the return.
HuffmanDecompressEnd ==
    /\ pc = "huff_loop"
    /\ ~decode_continues(output, original_len, bit_idx, bits)
    /\ output' = push_pending_leaf(output, current_node, original_len)
    /\ DecompressReturns(length_check(output', original_len))
    /\ UNCHANGED << original_len, lzvars, huffvars >>

\* ------------------------------------------------------------------ Spec

Next ==
    \/ RleCompressBegin
    \/ RleCompressStep
    \/ RleCompressEnd
    \/ RleDecompressBegin
    \/ RleDecompressChunk
    \/ RleDecompressEnd
    \/ Lz77CompressBegin
    \/ Lz77CompressStep
    \/ Lz77CompressEnd
    \/ Lz77DecompressBegin
    \/ Lz77ReadToken
    \/ Lz77CopyByte
    \/ Lz77PushNext
    \/ Lz77Finish
    \/ HuffmanCompress
    \/ HuffmanDecompressBegin
    \/ HuffmanDecodeStep
    \/ HuffmanDecompressEnd

Spec == Init /\ [][Next]_vars

\* ------------------------------------------------- calls that keep running

\* Longest of the buffers over ByteVals handed to the calls whose
\* termination is checked.
LiveLen == 4

\* The inputs of those calls: the short buffers, b"abcabc" and
\* b"abcabcabcabc", for Rle also the long runs and the increasing
\* sequence, for Huffman also b"hello" and b"aaaaaabbbbcccc".
LiveInputs(c) ==
    {b \in ShortBuffers : Len(b) <= LiveLen}
      \cup {b \in TestBuffers : Len(b) <= DEFAULT_LOOKAHEAD_SIZE}
      \cup (IF c = "Rle" THEN LongBuffers \cup TestBuffers \cup {Increasing}
            ELSE IF c = "Huffman"
            THEN {b \in HuffmanTestBuffers : Len(b) <= DEFAULT_LOOKAHEAD_SIZE}
            ELSE {})

\* The buffers compress did not write: for Lz77 those of at most two
\* tokens, for Rle and Huffman the short ones and the framed ones.
LiveForeign(c) ==
    IF c = "Lz77" THEN {b \in ForeignBuffers(c) : Len(b) <= 12}
    ELSE IF c = "Huffman" THEN {b \in ShortBuffers : Len(b) <= LiveLen}
                                 \cup HuffmanFramed \cup HuffmanCut
    ELSE {b \in ShortBuffers : Len(b) <= LiveLen}

\* The Lz77 instances of those calls: the default, a small window, and no
\* window at all.
LiveInstances == {Lz77_new, with_config(2, 4), with_config(0, 0)}

\* Init with the buffers and instances above.
LiveInit ==
    /\ codec \in Codecs
    /\ \/ /\ origin = "compress"
          /\ self \in IF codec = "Lz77" THEN LiveInstances ELSE {Lz77_new}
          /\ input \in LiveInputs(codec)
          /\ buf = <<>>
          /\ pc = "compress"
       \/ /\ origin = "foreign"
          /\ self = Lz77_new
          /\ input = <<>>
          /\ buf \in LiveForeign(codec)
          /\ pc = "decompress"
    /\ cres = Pending
    /\ dres = Pending
    /\ tree = NoTree
    /\ position = 0
    /\ tokens = <<>>
    /\ cursors = <<>>
    /\ best_offset = 0
    /\ best_length = 0
    /\ original_len = 0
    /\ output = <<>>
    /\ chunk = 0
    /\ start = 0
    /\ i = 0
    /\ dtree = NoTree
    /\ bits = <<>>
    /\ current_node = NoTree
    /\ bit_idx = 0
    /\ read_pos = 0
    /\ calls = <<>>

\* A call that has been entered keeps running: compress and decompress
\* are straight-line sequential code with no wait, so the step that is
\* enabled is taken.
LiveSpec == LiveInit /\ [][Next]_vars /\ WF_vars(Next)

\* ------------------------------------------- find_longest_match on its own

\* The cursor positions find_longest_match is called at on its own: every
\* position of a buffer no longer than the default lookahead; of a longer
\* one those near its two ends, at the multiples of MAX_RUN_LENGTH and two
\* past the default lookahead.
MatchPositions(data) ==
    {p \in 0..Len(data) :
        \/ Len(data) <= DEFAULT_LOOKAHEAD_SIZE
        \/ p <= MaxLen
        \/ Len(data) - p <= MaxLen
        \/ p % MAX_RUN_LENGTH = 0
        \/ p = DEFAULT_LOOKAHEAD_SIZE + 2}

\* A caller about to call find_longest_match(input, position), as the
\* tests of lz77.rs do.
MatchInit ==
    /\ codec = "Lz77"
    /\ self \in Lz77Instances
    /\ origin = "compress"
    /\ input \in Inputs
    /\ position \in MatchPositions(input)
    /\ pc = "match"
    /\ buf = <<>>
    /\ cres = Pending
    /\ dres = Pending
    /\ tree = NoTree
    /\ tokens = <<>>
    /\ cursors = <<>>
    /\ best_offset = 0
    /\ best_length = 0
    /\ original_len = 0
    /\ output = <<>>
    /\ chunk = 0
    /\ start = 0
    /\ i = 0
    /\ dtree = NoTree
    /\ bits = <<>>
    /\ current_node = NoTree
    /\ bit_idx = 0
    /\ read_pos = 0
    /\ calls = <<>>

\* Lz77::find_longest_match
FindLongestMatch ==
    /\ pc = "match"
    /\ LET m == find_longest_match(self, input, position)
       IN  /\ best_offset' = m[1]
           /\ best_length' = m[2]
    /\ pc' = "done"
    /\ UNCHANGED << callvars, cres, buf, dres, tree, position, tokens, cursors, decvars >>

MatchNext == FindLongestMatch

MatchSpec == MatchInit /\ [][MatchNext]_vars

\* ------------------------------- serialize_tree and deserialize_tree alone

\* Deepest tree serialized on its own (a leaf has depth 0).
MaxDepth == 2

\* The full binary trees of depth at most d with a byte of ByteVals at each
\* leaf; the markers 0 and 1 are among the bytes.
RECURSIVE TreesOfDepth(_)
TreesOfDepth(d) ==
    IF d = 0 THEN { new_leaf(b, 1) : b \in ByteVals }
    ELSE LET below == TreesOfDepth(d - 1)
         IN  below \cup { new_internal(l, r) : l \in below, r \in below }

\* What Huffman::compress writes after the tree, cut short.
TreeTails == { <<>>, << 0 >>, << 1 >>, << 1, 255 >> }

\* A caller with a tree to serialize and bytes to write after it, as
\* test_serialize_deserialize_tree and Huffman::compress do.
TreeInit ==
    /\ codec = "Huffman"
    /\ self = Lz77_new
    /\ origin = "compress"
    /\ tree \in TreesOfDepth(MaxDepth)
    /\ input \in TreeTails
    /\ pc = "serialize"
    /\ buf = <<>>
    /\ cres = Pending
    /\ dres = Pending
    /\ position = 0
    /\ tokens = <<>>
    /\ cursors = <<>>
    /\ best_offset = 0
    /\ best_length = 0
    /\ original_len = 0
    /\ output = <<>>
    /\ chunk = 0
    /\ start = 0
    /\ i = 0
    /\ dtree = NoTree
    /\ bits = <<>>
    /\ current_node = NoTree
    /\ bit_idx = 0
    /\ read_pos = 0
    /\ calls = <<>>

\* serialize_tree(&tree, &mut output), then the bytes that follow it.
SerializeTree ==
    /\ pc = "serialize"
    /\ buf' = serialize_tree(tree) \o input
    /\ pc' = "deserialize"
    /\ UNCHANGED << callvars, cres, dres, encvars, decvars >>

\* deserialize_tree(&buf, &mut pos) with pos = 0.
DeserializeTree ==
    /\ pc = "deserialize"
    /\ LET t == deserialize_tree(buf, 0)
       IN  /\ dres' = IF t.ok THEN Ok(t.node) ELSE Err("CorruptedData")
           /\ dtree' = IF t.ok THEN t.node ELSE dtree
           /\ read_pos' = t.pos
    /\ pc' = "done"
    /\ UNCHANGED << callvars, cres, buf, encvars, original_len, output, lzvars, bits,
                    current_node, bit_idx >>

TreeNext == SerializeTree \/ DeserializeTree

TreeSpec == TreeInit /\ [][TreeNext]_vars


\* ---------------------------------- Huffman::compress and the bit packing

\* Longest bit sequence handed to bits_to_bytes on its own.
MaxPacked == 10

\* Every bit sequence of at most MaxPacked bits.
BitSeqs == UNION { [1..n -> BOOLEAN] : n \in 0..MaxPacked }

\* Either a caller is about to call Huffman::compress, or bits_to_bytes
\* is about to be called on a bit sequence, as the tests do.
FrameInit ==
    /\ codec = "Huffman"
    /\ self = Lz77_new
    /\ \/ /\ origin = "compress"
          /\ input \in InputsOf("Huffman")
          /\ bits = <<>>
          /\ pc = "compress"
       \/ /\ origin = "bits"
          /\ input = <<>>
          /\ bits \in BitSeqs
          /\ pc = "pack"
    /\ buf = <<>>
    /\ cres = Pending
    /\ dres = Pending
    /\ tree = NoTree
    /\ position = 0
    /\ tokens = <<>>
    /\ cursors = <<>>
    /\ best_offset = 0
    /\ best_length = 0
    /\ original_len = 0
    /\ output = <<>>
    /\ chunk = 0
    /\ start = 0
    /\ i = 0
    /\ dtree = NoTree
    /\ current_node = NoTree
    /\ bit_idx = 0
    /\ read_pos = 0
    /\ calls = <<>>

\* bits_to_bytes(&bits)
BitsToBytes ==
    /\ pc = "pack"
    /\ cres' = Ok(bits_to_bytes(bits))
    /\ buf' = bits_to_bytes(bits)
    /\ pc' = "unpack"
    /\ UNCHANGED << callvars, dres, encvars, decvars >>

\* bytes_to_bits(&buf, bits.len())
BytesToBits ==
    /\ pc = "unpack"
    /\ dres' = Ok(bytes_to_bits(buf, Len(bits)))
    /\ pc' = "done"
    /\ UNCHANGED << callvars, cres, buf, encvars, decvars >>

FrameNext == HuffmanCompress \/ BitsToBytes \/ BytesToBits

FrameSpec == FrameInit /\ [][FrameNext]_vars

\* ------------------------------------------------- calls at the same time

\* The number of calls in progress at the same time.
NumCalls == 2

\* A call of `op` ("compress" or "decompress") of codec cd on arg, before
\* its first step: its arguments, its locals and its result.  `overlapped`
\* records that the call took a step while another call was in progress.
CallInit(cd, op, arg) ==
    [codec |-> cd, op |-> op, arg |-> arg, pc |-> "start", res |-> Pending,
     overlapped |-> FALSE,
     output |-> <<>>, i |-> 0, chunk |-> 0, start |-> 0, position |-> 0,
     tokens |-> <<>>, original_len |-> 0, dtree |-> NoTree, bits |-> <<>>,
     current_node |-> NoTree, bit_idx |-> 0]

\* The call returns r.
Return(c, r) == [c EXCEPT !.pc = "done", !.res = r]

\* The steps of Rle::compress and Rle::decompress on the call's own
\* locals: the call after one step.
RleCallSteps(c) ==
    IF c.pc = "start" /\ c.op = "compress"
    THEN { IF c.arg = <<>> THEN Return(c, Ok(<<>>))
           ELSE [c EXCEPT !.pc = "rle_scan", !.output = <<>>, !.i = 0] }
    ELSE IF c.pc = "rle_scan"
    THEN { IF c.i < Len(c.arg)
           THEN LET run_length == rle_run_length(c.arg, c.i)
                IN  [c EXCEPT !.output = @ \o << run_length, c.arg[c.i + 1] >>,
                              !.i = @ + run_length]
           ELSE Return(c, Ok(c.output)) }
    ELSE IF c.pc = "start"
    THEN { IF c.arg = <<>> THEN Return(c, Ok(<<>>))
           ELSE IF rle_length_odd(c.arg) THEN Return(c, Err("CorruptedData"))
           ELSE [c EXCEPT !.pc = "rle_loop", !.output = <<>>, !.chunk = 0] }
    ELSE { IF c.chunk < rle_num_chunks(c.arg)
           THEN IF c.arg[2 * c.chunk + 1] = 0
                THEN Return(c, Err("CorruptedData"))
                ELSE [c EXCEPT !.output = @ \o repeat_n(c.arg[2 * c.chunk + 2],
                                                        c.arg[2 * c.chunk + 1]),
                              !.chunk = @ + 1]
           ELSE Return(c, Ok(c.output)) }

\* The steps of Lz77::compress and Lz77::decompress on instance lz.
Lz77CallSteps(lz, c) ==
    IF c.pc = "start" /\ c.op = "compress"
    THEN { IF c.arg = <<>> THEN Return(c, Ok(<<>>))
           ELSE [c EXCEPT !.pc = "lz_scan", !.tokens = <<>>, !.position = 0] }
    ELSE IF c.pc = "lz_scan"
    THEN { IF c.position < Len(c.arg)
           THEN LET s == lz77_compress_step(lz, c.arg, c.position)
                IN  [c EXCEPT !.tokens = Append(@, s.token), !.position = s.position]
           ELSE Return(c, Ok(lz77_frame(c.arg, c.tokens))) }
    ELSE IF c.pc = "start"
    THEN { IF c.arg = <<>> THEN Return(c, Ok(<<>>))
           ELSE IF header_missing(c.arg) THEN Return(c, Err("CorruptedData"))
           ELSE IF token_data_ragged(c.arg) THEN Return(c, Err("CorruptedData"))
           ELSE [c EXCEPT !.pc = "lz_loop", !.output = <<>>, !.chunk = 0,
                          !.original_len = u32_from_le_bytes(SubSeq(c.arg, 1, 4))] }
    ELSE LET t == from_bytes(chunk_at(c.arg, c.chunk))
         IN  IF c.pc = "lz_loop"
             THEN { IF c.chunk >= num_chunks(c.arg)
                    THEN Return(c, length_check(c.output, c.original_len))
                    ELSE IF t.length = 0 THEN [c EXCEPT !.pc = "lz_next"]
                    ELSE IF ~offset_valid(t.offset, c.output)
                    THEN Return(c, Err("CorruptedData"))
                    ELSE [c EXCEPT !.pc = "lz_copy", !.i = 0,
                                   !.start = Len(c.output) - t.offset] }
             ELSE IF c.pc = "lz_copy"
             THEN { IF ~copy_continues(c.i, t.length, c.output, c.original_len)
                    THEN [c EXCEPT !.pc = "lz_next"]
                    ELSE IF c.start + c.i >= 0 /\ c.start + c.i < Len(c.output)
                    THEN [c EXCEPT !.output = Append(@, copy_byte(c.output, c.start, c.i)),
                                   !.i = @ + 1]
                    ELSE Return(c, Err("panic")) }
             ELSE { [c EXCEPT !.pc = "lz_loop", !.chunk = @ + 1,
                              !.output = push_next(@, t.next, c.original_len)] }

\* The steps of Huffman::compress (one, for each tree build_huffman_tree
\* can return) and of Huffman::decompress.
HuffmanCallSteps(c) ==
    IF c.pc = "start" /\ c.op = "compress"
    THEN { Return(c, r.result) : r \in huffman_compress(c.arg) }
    ELSE IF c.pc = "start"
    THEN LET t == deserialize_tree(c.arg, 0)
         IN  { IF c.arg = <<>> THEN Return(c, Ok(<<>>))
               ELSE IF ~t.ok THEN Return(c, Err("CorruptedData"))
               ELSE IF t.pos + 8 > Len(c.arg) THEN Return(c, Err("CorruptedData"))
               ELSE [c EXCEPT
                       !.pc = "huff_loop", !.output = <<>>, !.dtree = t.node,
                       !.current_node = t.node, !.bit_idx = 0,
                       !.original_len = u32_from_le_bytes(SubSeq(c.arg, t.pos + 1, t.pos + 4)),
                       !.bits = bytes_to_bits(
                                    SubSeq(c.arg, t.pos + 9, Len(c.arg)),
                                    u32_from_le_bytes(SubSeq(c.arg, t.pos + 5, t.pos + 8)))] }
    ELSE { IF decode_continues(c.output, c.original_len, c.bit_idx, c.bits)
           THEN IF c.current_node.kind = "Leaf"
                THEN [c EXCEPT !.output = Append(@, c.current_node.byte),
                               !.current_node = c.dtree]
                ELSE [c EXCEPT !.current_node = IF c.bits[c.bit_idx + 1]
                                                THEN @.right ELSE @.left,
                               !.bit_idx = @ + 1]
           ELSE LET out == push_pending_leaf(c.output, c.current_node, c.original_len)
                IN  Return([c EXCEPT !.output = out], length_check(out, c.original_len)) }

\* The call after one step, for each step it can take.
CallSteps(lz, c) ==
    IF c.pc = "done" THEN {}
    ELSE IF c.codec = "Rle" THEN RleCallSteps(c)
    ELSE IF c.codec = "Lz77" THEN Lz77CallSteps(lz, c)
    ELSE HuffmanCallSteps(c)

\* A step that fits the lookahead of the instance to the input.
instance_after_fitted(lz, c) ==
    IF c.codec = "Lz77" /\ c.op = "compress"
    THEN [lz EXCEPT !.lookahead_size = Min(@, Len(c.arg))]
    ELSE lz

\* The instance after a step of call c: compress and decompress take
\* &self and the fields of Lz77 are plain usize, so no step writes them.
instance_after(lz, c) == lz

\* The calls made at the same time: of each codec a compress and a
\* decompress; of Lz77 also a decompress that fails, of Huffman also a
\* compress whose tree depends on the order of equal frequencies.
ConcCalls ==
    { CallInit("Rle", "compress", << 0, 0, 255 >>),
      CallInit("Rle", "decompress", << 2, 0, 1, 255 >>),
      CallInit("Lz77", "compress", << 0, 0, 0, 0, 0 >>),
      CallInit("Lz77", "decompress",
               u32_to_le_bytes(5) \o to_bytes(new_literal(0)) \o to_bytes(new_match(1, 4, 0))),
      CallInit("Lz77", "decompress",
               u32_to_le_bytes(5) \o to_bytes(new_literal(0)) \o to_bytes(new_match(2, 4, 0))),
      CallInit("Huffman", "compress", << 0, 255, 0 >>),
      CallInit("Huffman", "compress", << 0, 255 >>),
      CallInit("Huffman", "decompress",
               << 0, 1, 0, 1, 255 >> \o u32_to_le_bytes(2) \o u32_to_le_bytes(2) \o << 64 >>) }

\* The Lz77 instances they share.
ConcInstances == { Lz77_new, with_config(2, 4) }

\* NumCalls callers about to call, all holding the same Lz77 instance.
ConcInit ==
    /\ codec = "Lz77"
    /\ self \in ConcInstances
    /\ origin = "compress"
    /\ input = <<>>
    /\ calls \in [1..NumCalls -> ConcCalls]
    /\ pc = "calls"
    /\ buf = <<>>
    /\ cres = Pending
    /\ dres = Pending
    /\ tree = NoTree
    /\ position = 0
    /\ tokens = <<>>
    /\ cursors = <<>>
    /\ best_offset = 0
    /\ best_length = 0
    /\ original_len = 0
    /\ output = <<>>
    /\ chunk = 0
    /\ start = 0
    /\ i = 0
    /\ dtree = NoTree
    /\ bits = <<>>
    /\ current_node = NoTree
    /\ bit_idx = 0
    /\ read_pos = 0

\* Call k takes its next step, whatever the other calls are at.
CallStep(k) ==
    /\ pc = "calls"
    /\ \E n \in CallSteps(self, calls[k]) :
          /\ calls' = [calls EXCEPT
                          ![k] = [n EXCEPT !.overlapped =
                                     @ \/ \E o \in (1..NumCalls) \ {k} :
                                              calls[o].pc \notin {"start", "done"}]]
          /\ self' = instance_after(self, n)
    /\ UNCHANGED << codec, origin, input, cres, buf, dres, pc, encvars, decvars >>

ConcNext == \E k \in 1..NumCalls : CallStep(k)

ConcSpec == ConcInit /\ [][ConcNext]_vars

\* ---------------------------------------------------------------- claims

\* compress has returned in this state.
Compressed == origin = "compress" /\ pc \notin {"compress", "rle_scan", "lz_scan"}

\* The round trip of the codec has ended in this state.
RoundTripDone == origin = "compress" /\ pc = "done"

\* C1: RLE round trip.  For every buffer B handed to Rle::compress (empty,
\* one byte, runs shorter and longer than 255, mixed runs), compress
\* returns Ok and Rle::decompress of what it returned is Ok(B).
C1_RleRoundTrip ==
    codec = "Rle" =>
        /\ Compressed => cres.ok
        /\ RoundTripDone => dres = Ok(input)

\* A round trip of a run longer than 255 followed by another byte.
C1_Witness ==
    /\ codec = "Rle"
    /\ RoundTripDone
    /\ Len(input) > MAX_RUN_LENGTH + 1
    /\ input[Len(input)] # input[1]
    /\ dres = Ok(input)

\* C2: LZ77 round trip with the default configuration (window 4096,
\* lookahead 18).  For every buffer B, Lz77::new().compress(B) is Ok and
\* Lz77::new().decompress of it is Ok(B).
C2_Lz77DefaultRoundTrip ==
    (codec = "Lz77" /\ self = Lz77_new) =>
        /\ Compressed => cres.ok
        /\ RoundTripDone => dres = Ok(input)

\* A round trip whose last token is a match that overlaps the cursor and
\* reaches the end of an input that does not end in 0: the token's
\* literal is 0 and the decoder did not emit it.
C2_Witness ==
    /\ codec = "Lz77"
    /\ self = Lz77_new
    /\ RoundTripDone
    /\ tokens # <<>>
    /\ LET last == tokens[Len(tokens)]
       IN  /\ last.length >= MIN_MATCH_LENGTH
           /\ last.offset < last.length
           /\ last.next = 0
    /\ input[Len(input)] # 0
    /\ dres = Ok(input)

\* C3: Huffman round trip under every tie-break.  For every non-empty
\* buffer B and every tree that popping equal-frequency nodes in some
\* order builds, Huffman::compress(B) is Ok and Huffman::decompress of it
\* is Ok(B).
C3_HuffmanRoundTrip ==
    (codec = "Huffman" /\ input # <<>>) =>
        /\ Compressed => cres.ok
        /\ RoundTripDone => dres = Ok(input)

\* A round trip of an input for which more than one tree can be built,
\* whose last code ended at the declared bit count, so that the last byte
\* was the pending leaf pushed after the loop.
C3_Witness ==
    /\ codec = "Huffman"
    /\ RoundTripDone
    /\ Cardinality(build_huffman_tree(build_frequency_table(input))) > 1
    /\ tree.kind = "Internal"
    /\ bit_idx = Len(bits)
    /\ current_node.kind = "Leaf"
    /\ dres = Ok(input)

\* C4: empty-input shortcut.  For each codec (and every Lz77 instance),
\* compress of the empty buffer returns Ok of the empty buffer,
\* decompress of the empty buffer returns Ok of the empty buffer, and
\* compress of a non-empty buffer returns Ok of a non-empty buffer.
C4_EmptyShortcut ==
    /\ Compressed =>
          IF input = <<>> THEN cres = Ok(<<>>) ELSE cres.ok /\ cres.val # <<>>
    /\ (pc = "done" /\ buf = <<>> /\ (origin = "foreign" \/ cres.ok)) => dres = Ok(<<>>)

\* Huffman compressed the empty buffer to the empty buffer and
\* decompressed that to the empty buffer.
C4_Witness ==
    /\ codec = "Huffman"
    /\ RoundTripDone
    /\ input = <<>>
    /\ cres = Ok(<<>>)
    /\ dres = Ok(<<>>)

\* C5: LZ77 round trip for every caller configuration.  For every Lz77
\* built by with_config, whatever the two sizes (0, below the minimum
\* match length, lookahead_size above 255, window_size above 65535), and
\* every buffer B, compress(B) is Ok and decompress of it is Ok(B).
C5_Lz77AnyConfigRoundTrip ==
    codec = "Lz77" =>
        /\ Compressed => cres.ok
        /\ RoundTripDone => dres = Ok(input)

\* The maximal run at the front of a non-empty buffer: its length.
FrontRun(data) ==
    CHOOSE n \in 1..Len(data) :
        /\ \A k \in 1..n : data[k] = data[1]
        /\ n = Len(data) \/ data[n + 1] # data[1]

\* The records for a maximal run of n bytes b: n \div 255 records (255, b),
\* then (n % 255, b) unless n % 255 is 0.
RunRecords(n, b) ==
    [k \in 1..(2 * (n \div 255)) |-> IF k % 2 = 1 THEN 255 ELSE b]
        \o (IF n % 255 # 0 THEN << n % 255, b >> ELSE <<>>)

\* The records of the maximal runs of a buffer, in order.
RECURSIVE RunsRecords(_)
RunsRecords(data) ==
    IF data = <<>> THEN <<>>
    ELSE LET n == FrontRun(data)
         IN  RunRecords(n, data[1]) \o RunsRecords(SubSeq(data, n + 1, Len(data)))

\* C6: RLE encoding of runs.  Rle::compress emits, for each maximal run of
\* n equal bytes b and in input order, n \div 255 records (255, b) and
\* then (n % 255, b) when n % 255 is not 0; every count emitted is in
\* 1..255; and 300 copies of 0xAA compress to exactly [255, 0xAA, 45, 0xAA].
C6_RleRuns ==
    (codec = "Rle" /\ Compressed) =>
        /\ cres = Ok(RunsRecords(input))
        /\ \A k \in 1..Len(cres.val) : k % 2 = 1 => cres.val[k] \in 1..255
        /\ input = repeat_n(170, 300) => cres.val = << 255, 170, 45, 170 >>

\* Rle::compress has returned [255, 0xAA, 45, 0xAA] for 300 copies of 0xAA.
C6_Witness ==
    /\ codec = "Rle"
    /\ Compressed
    /\ input = repeat_n(170, 300)
    /\ cres = Ok(<< 255, 170, 45, 170 >>)

\* The number of bytes the first k pairs of an RLE buffer stand for.
RECURSIVE PairsTotal(_, _)
PairsTotal(data, k) == IF k = 0 THEN 0 ELSE PairsTotal(data, k - 1) + data[2 * k - 1]

\* out is each byte of the pairs of data replicated count times, in order.
IsReplication(data, out) ==
    /\ Len(out) = PairsTotal(data, Len(data) \div 2)
    /\ \A k \in 1..(Len(data) \div 2) :
          \A j \in (PairsTotal(data, k - 1) + 1)..PairsTotal(data, k) :
              out[j] = data[2 * k]

\* C7: RLE corruption detection.  For a non-empty buffer X,
\* Rle::decompress(X) is Err(CorruptedData), with no output, if the
\* length of X is odd or some (count, byte) pair of X has count 0,
\* wherever it is; otherwise it is Ok of each byte replicated count times
\* in order.
C7_RleCorruption ==
    (codec = "Rle" /\ pc = "done" /\ buf # <<>>) =>
        IF \/ Len(buf) % 2 = 1
           \/ \E k \in 1..(Len(buf) \div 2) : buf[2 * k - 1] = 0
        THEN dres = [ok |-> FALSE, val |-> <<>>, err |-> "CorruptedData"]
        ELSE dres.ok /\ dres.err = "none" /\ IsReplication(buf, dres.val)

\* Rle::decompress has rejected a buffer of even length whose second
\* pair, not its first, has count 0.
C7_Witness ==
    /\ codec = "Rle"
    /\ origin = "foreign"
    /\ pc = "done"
    /\ Len(buf) = 4
    /\ buf[1] # 0
    /\ buf[3] = 0
    /\ dres = Err("CorruptedData")

\* C8: LZ77 framing validation.  Lz77::decompress returns
\* Err(CorruptedData) for every buffer of 1, 2 or 3 bytes and for every
\* buffer of at least 4 bytes whose length minus 4 is not a multiple of
\* 4, and it does so before any token is replayed: the call never enters
\* the token loop and has no output.
C8_Lz77Framing ==
    (/\ codec = "Lz77"
     /\ pc \notin {"compress", "lz_scan"}
     /\ \/ Len(buf) \in 1..3
        \/ Len(buf) >= 4 /\ (Len(buf) - 4) % 4 # 0) =>
        /\ pc \in {"decompress", "done"}
        /\ chunk = 0
        /\ output = <<>>
        /\ pc = "done" => dres = Err("CorruptedData")

\* Lz77::decompress has rejected a 7-byte buffer: a header and three
\* bytes of a token.
C8_Witness ==
    /\ codec = "Lz77"
    /\ pc = "done"
    /\ Len(buf) = 7
    /\ dres = Err("CorruptedData")

\* C9: LZ77 back-reference validity on decode.  While tokens are
\* replayed, a token with length > 0 whose offset is 0 or exceeds the
\* number of bytes output so far makes Lz77::decompress return
\* Err(CorruptedData); every byte a copy reads is inside the output
\* produced so far; and a token with length 0 is a literal whose offset
\* is ignored: reading it never returns an error.
C9_Lz77BackReference ==
    [][ /\ (pc = "lz_loop" /\ chunk < num_chunks(buf)) =>
              /\ (token.length > 0 /\ (token.offset = 0 \/ token.offset > Len(output)))
                     => (pc' = "done" /\ dres' = Err("CorruptedData"))
              /\ (token.length > 0 /\ token.offset \in 1..Len(output))
                     => (pc' = "lz_copy" /\ start' = Len(output) - token.offset)
              /\ token.length = 0 => (pc' = "lz_next" /\ dres' = Pending)
        /\ (pc = "lz_copy" /\ pc' = "lz_copy") =>
              /\ start + i \in 0..(Len(output) - 1)
              /\ output' = Append(output, output[start + i + 1])
        /\ pc = "lz_copy" => dres'.err # "panic"
      ]_vars

\* Lz77::decompress has rejected a match token that is not the first
\* token, whose offset is not 0 but exceeds the output produced by the
\* tokens before it.
C9_Witness ==
    /\ codec = "Lz77"
    /\ origin = "foreign"
    /\ pc = "done"
    /\ chunk >= 1
    /\ chunk < num_chunks(buf)
    /\ output # <<>>
    /\ token.length > 0
    /\ token.offset > Len(output)
    /\ dres = Err("CorruptedData")

\* C10: LZ77 declared-length post-condition.  During token replay the
\* output is never longer than the original length declared in the
\* 4-byte header; after the last token Lz77::decompress returns Ok only
\* of an output of exactly the declared length, and Err(CorruptedData)
\* when the tokens replayed to fewer bytes.
C10_Lz77DeclaredLength ==
    (codec = "Lz77" /\ pc \in {"lz_loop", "lz_copy", "lz_next", "done"}
                    /\ Len(buf) >= 4 /\ (Len(buf) - 4) % 4 = 0) =>
        LET declared == u32_from_le_bytes(SubSeq(buf, 1, 4))
        IN  /\ Len(output) <= declared
            /\ (pc = "done" /\ dres.ok) => (dres.val = output /\ Len(dres.val) = declared)
            /\ (pc = "done" /\ chunk >= num_chunks(buf) /\ Len(output) < declared)
                  => dres = Err("CorruptedData")

\* A copy has stopped before its length because the output reached the
\* declared length.
C10_Witness ==
    /\ codec = "Lz77"
    /\ pc = "lz_next"
    /\ token.length > 0
    /\ i < token.length
    /\ i > 0
    /\ Len(output) = original_len

\* find_longest_match has returned from a lone call.
Matched == pc = "done" /\ cres = Pending /\ codec = "Lz77" /\ origin = "compress"

\* The first n bytes from start s (0-based) equal the first n bytes from
\* the cursor p.
Agree(data, s, p, n) == \A k \in 1..n : data[s + k] = data[p + k]

\* The most bytes a match at cursor p may have: lookahead_size, and no
\* more than the bytes from p to the end of the input.
MatchCap(lz, data, p) == Min(lz.lookahead_size, Len(data) - p)

\* The start positions of the search window of cursor p.
WindowStarts(lz, p) == saturating_sub(p, lz.window_size)..(p - 1)

\* The number of leading bytes on which data[s..] and data[p..] agree,
\* capped, is exactly n.
AgreesExactly(lz, data, s, p, n) ==
    /\ n <= MatchCap(lz, data, p)
    /\ Agree(data, s, p, n)
    /\ n < MatchCap(lz, data, p) => data[s + n + 1] # data[p + n + 1]

\* The same number is more than n.
AgreesBeyond(lz, data, s, p, n) ==
    /\ n < MatchCap(lz, data, p)
    /\ Agree(data, s, p, n + 1)

\* C11: LZ77 tie-break.  When several start positions of the search
\* window give a match of the same, longest length (at least 3) at the
\* cursor, find_longest_match returns the smallest offset among them: no
\* start nearer to the cursor than the one returned reaches the returned
\* length.
C11_Lz77NearestWins ==
    (Matched /\ best_length >= MIN_MATCH_LENGTH) =>
        \A s \in WindowStarts(self, position) :
            AgreesExactly(self, input, s, position, best_length)
                => position - s >= best_offset

\* C18: LZ77 longest match.  When some start of the search window agrees
\* with the cursor on 3 bytes or more (within lookahead_size and the end
\* of the input), find_longest_match returns the offset of a start of the
\* window whose agreement is exactly the returned length, and no start of
\* the window agrees on more; otherwise it returns (0, 0).  At position 0
\* it returns (0, 0), and for "abcabc" at position 3 it returns (3, 3).
C18_Lz77LongestMatch ==
    Matched =>
        /\ IF \E s \in WindowStarts(self, position) :
                  AgreesBeyond(self, input, s, position, MIN_MATCH_LENGTH - 1)
           THEN /\ best_length >= MIN_MATCH_LENGTH
                /\ position - best_offset \in WindowStarts(self, position)
                /\ AgreesExactly(self, input, position - best_offset, position,
                                 best_length)
                /\ \A s \in WindowStarts(self, position) :
                       ~AgreesBeyond(self, input, s, position, best_length)
           ELSE best_offset = 0 /\ best_length = 0
        /\ position = 0 => (best_offset = 0 /\ best_length = 0)
        /\ (input = << 97, 98, 99, 97, 98, 99 >> /\ position = 3
               /\ self.window_size >= 3 /\ self.lookahead_size >= 3)
              => (best_offset = 3 /\ best_length = 3)

\* find_longest_match has returned a match found at a start that is not
\* the first of the window, after a start that agrees with the cursor on
\* fewer bytes.
C18_Witness ==
    /\ Matched
    /\ best_length >= MIN_MATCH_LENGTH
    /\ position - best_offset > saturating_sub(position, self.window_size)
    /\ \E s \in WindowStarts(self, position) :
          /\ s < position - best_offset
          /\ ~Agree(input, s, position, 1)

\* n copies of one byte, n >= 1.
OneSymbol(data) == data # <<>> /\ \A k \in 1..Len(data) : data[k] = data[1]

\* C12: Huffman single-symbol coding.  For an input of n >= 1 copies of
\* one byte b the tree is the leaf of b, the code of b has exactly 1 bit,
\* and Huffman::compress returns the leaf [1, b], then n and n again as 4
\* little-endian bytes each, then ceil(n / 8) packed bytes: 10 + ceil(n / 8)
\* bytes, fewer than the input for n = 100 and n = 1000.
C12_HuffmanSingleSymbol ==
    (codec = "Huffman" /\ Compressed /\ OneSymbol(input)) =>
        LET n == Len(input)
            b == input[1]
        IN  /\ tree.kind = "Leaf" /\ tree.byte = b
            /\ Len(build_codes(tree, <<>>)[b]) = 1
            /\ cres.ok
            /\ Len(cres.val) = 10 + ((n + 7) \div 8)
            /\ SubSeq(cres.val, 1, 10)
                  = << 1, b >> \o u32_to_le_bytes(n) \o u32_to_le_bytes(n)
            /\ n \in {100, 1000} => Len(cres.val) < n

\* Huffman::compress has returned 135 bytes for 1000 bytes 0xAA.
C12_Witness ==
    /\ codec = "Huffman"
    /\ Compressed
    /\ input = repeat_n(170, 1000)
    /\ cres.ok
    /\ Len(cres.val) = 135

\* Two trees have the same shape and the same bytes at the same leaves,
\* whatever their frequencies.
RECURSIVE SameTree(_, _)
SameTree(a, b) ==
    /\ a.kind = b.kind
    /\ IF a.kind = "Leaf"
       THEN a.byte = b.byte
       ELSE SameTree(a.left, b.left) /\ SameTree(a.right, b.right)

\* C13: Huffman tree serialization round trip.  For every full binary
\* tree T with a byte at each leaf, deserialize_tree of the bytes
\* serialize_tree(T) wrote, whatever bytes follow them, returns Ok of a
\* tree of the same shape with the same leaf bytes in the same places, and
\* leaves pos at the end of the serialized tree.
C13_TreeRoundTrip ==
    (pc = "done" /\ buf # <<>> /\ cres = Pending /\ codec = "Huffman") =>
        /\ dres.ok
        /\ SameTree(dres.val, tree)
        /\ read_pos = Len(serialize_tree(tree))
        /\ read_pos = Len(buf) - Len(input)

\* A tree with an internal node as a right child and a leaf of byte 0 or
\* 1, the values of the markers, has been read back with bytes left after
\* it.
C13_Witness ==
    /\ pc = "done"
    /\ codec = "Huffman"
    /\ cres = Pending
    /\ dres.ok
    /\ tree.kind = "Internal"
    /\ tree.right.kind = "Internal"
    /\ tree.left.kind = "Leaf"
    /\ tree.left.byte \in {0, 1}
    /\ SameTree(dtree, tree)
    /\ read_pos < Len(buf)

\* Where the serialized tree at the front of data ends (the number of
\* bytes it takes), or -1 if data ends before the tree does.  The bytes
\* are scanned once from pos on, `need` being the number of subtrees still
\* to come: a byte 1 is a leaf marker, followed by the leaf's byte; any
\* other byte marks an internal node, which has two subtrees.
RECURSIVE TreeScan(_, _, _)
TreeScan(data, pos, need) ==
    IF need = 0 THEN pos
    ELSE IF pos >= Len(data) THEN -1
    ELSE IF data[pos + 1] = 1
    THEN IF pos + 1 >= Len(data) THEN -1 ELSE TreeScan(data, pos + 2, need - 1)
    ELSE TreeScan(data, pos + 1, need + 1)

TreeEnd(data) == TreeScan(data, 0, 1)

\* C14: Huffman corruption detection.  For a non-empty buffer X,
\* Huffman::decompress(X) returns Err(CorruptedData) when X ends inside
\* the serialized tree (also after a leaf marker 1 without its byte) and
\* when fewer than 8 bytes follow the tree; otherwise it returns
\* Err(CorruptedData) exactly when the walk over the available bits, with
\* the pending leaf, gave fewer bytes than the declared original length,
\* having then used up every bit, and it returns Ok only of an output of
\* the declared length.
C14_HuffmanCorruption ==
    (codec = "Huffman" /\ pc = "done" /\ buf # <<>> /\ (origin = "foreign" \/ cres.ok)) =>
        LET e == TreeEnd(buf)
        IN  IF e < 0 \/ Len(buf) - e < 8
            THEN dres = Err("CorruptedData") /\ output = <<>>
            ELSE LET declared == u32_from_le_bytes(SubSeq(buf, e + 1, e + 4))
                 IN  /\ dres.ok => (dres.val = output /\ Len(dres.val) = declared)
                     /\ Len(output) <= declared
                     /\ Len(output) < declared =>
                            (dres = Err("CorruptedData") /\ bit_idx = Len(bits))
                     /\ ~dres.ok => Len(output) < declared

\* Huffman::decompress has rejected a buffer with a whole tree of several
\* leaves and both length fields, whose bits, all used, decoded to some
\* bytes but fewer than declared.
C14_Witness ==
    /\ codec = "Huffman"
    /\ origin = "foreign"
    /\ pc = "done"
    /\ dtree.kind = "Internal"
    /\ bits # <<>>
    /\ bit_idx = Len(bits)
    /\ output # <<>>
    /\ Len(output) < original_len
    /\ dres = Err("CorruptedData")

\* The length of the output after the first k tokens of an LZ77 buffer
\* whose offsets are valid: a token adds its length and its literal, up to
\* the declared length.
RECURSIVE LzLenAfter(_, _)
LzLenAfter(data, k) ==
    IF k = 0 THEN 0
    ELSE Min(u32_from_le_bytes(SubSeq(data, 1, 4)),
             LzLenAfter(data, k - 1) + from_bytes(chunk_at(data, k - 1)).length + 1)

\* C15: input is never partially consumed.  A decompress call that
\* returns Ok has used its whole input: an LZ77 buffer with a token after
\* the output has reached the declared original length, and a Huffman
\* buffer with bits the walk did not read or with packed bytes none of
\* whose bits it read, is not accepted.
C15_WholeInputConsumed ==
    (pc = "done" /\ dres.ok /\ buf # <<>> /\ (origin = "foreign" \/ cres.ok)) =>
        /\ codec = "Rle" => chunk = rle_num_chunks(buf)
        /\ codec = "Lz77" =>
              /\ chunk = num_chunks(buf)
              /\ num_chunks(buf) >= 1 =>
                     LzLenAfter(buf, num_chunks(buf) - 1) < original_len
        /\ codec = "Huffman" =>
              /\ bit_idx = Len(bits)
              /\ Len(buf) - read_pos <= (bit_idx + 7) \div 8

\* No two adjacent bytes are equal.
NoRepeat(data) == \A k \in 1..(Len(data) - 1) : data[k] # data[k + 1]

\* C17: RLE compression is total and bounded in size.  Rle::compress
\* returns Ok for every input; while it runs and when it returns, its
\* output has an even length of at most 2 times the bytes read; the
\* output is exactly 2 times the input when no two adjacent bytes are
\* equal (the increasing sequence 0..100 gives 200 bytes, no fewer than
\* the input) and 2 * ceil(n / 255) bytes for n copies of one byte (100
\* equal bytes give fewer than 100).
C17_RleSize ==
    (codec = "Rle" /\ origin = "compress") =>
        /\ pc = "rle_scan" =>
              (Len(output) % 2 = 0 /\ Len(output) <= 2 * i /\ i <= Len(input))
        /\ Compressed =>
              /\ cres.ok
              /\ Len(cres.val) % 2 = 0
              /\ Len(cres.val) <= 2 * Len(input)
              /\ NoRepeat(input) => Len(cres.val) = 2 * Len(input)
              /\ OneSymbol(input) =>
                     Len(cres.val) = 2 * ((Len(input) + MAX_RUN_LENGTH - 1)
                                             \div MAX_RUN_LENGTH)
              /\ input = Increasing => Len(cres.val) >= Len(input)
              /\ input = repeat_n(170, 100) => Len(cres.val) < Len(input)

\* Rle::compress has returned 200 bytes for the 100 bytes 0, 1, ..., 99.
C17_Witness ==
    /\ codec = "Rle"
    /\ Compressed
    /\ input = Increasing
    /\ cres.ok
    /\ Len(cres.val) = 200

\* The cursor after the k-th token was pushed.
CursorAfter(k) == IF k < Len(tokens) THEN cursors[k + 1] ELSE position

\* C19: LZ77 encoder and decoder advance in lockstep.  Under the default
\* configuration the cursor advances by 1 after a literal token and by
\* length + 1 after a match token (by length when the match reaches the
\* end of the input); every match token pushed has
\* 3 <= length <= lookahead_size and
\* 1 <= offset <= min(window_size, cursor); and when Lz77::decompress
\* replays the tokens, the output before the k-th token has as many bytes
\* as the cursor was at when that token was pushed, and no token makes
\* it return an error.
C19_Lz77Lockstep ==
    (codec = "Lz77" /\ self = Lz77_new /\ origin = "compress") =>
        /\ Len(cursors) = Len(tokens)
        /\ \A k \in 1..Len(tokens) :
              LET t == tokens[k]
                  c == cursors[k]
              IN  IF t.length = 0
                  THEN CursorAfter(k) = c + 1
                  ELSE /\ CursorAfter(k) = IF c + t.length < Len(input)
                                           THEN c + t.length + 1
                                           ELSE c + t.length
                       /\ CursorAfter(k) <= Len(input)
                       /\ t.length >= MIN_MATCH_LENGTH
                       /\ t.length <= self.lookahead_size
                       /\ t.offset >= 1
                       /\ t.offset <= Min(self.window_size, c)
        /\ pc \in {"lz_loop", "lz_copy", "lz_next"} =>
              /\ num_chunks(buf) = Len(tokens)
              /\ chunk < Len(tokens) => token = tokens[chunk + 1]
        /\ pc = "lz_loop" =>
              Len(output) = IF chunk < Len(tokens) THEN cursors[chunk + 1] ELSE Len(input)
        /\ pc = "lz_copy" => Len(output) = cursors[chunk + 1] + i
        /\ dres.err \in {"pending", "none"}

\* The decoder is about to read a match token that follows another match
\* token, with as many bytes output as the encoder's cursor was at.
C19_Witness ==
    /\ codec = "Lz77"
    /\ self = Lz77_new
    /\ origin = "compress"
    /\ pc = "lz_loop"
    /\ chunk >= 2
    /\ chunk < Len(tokens)
    /\ tokens[chunk].length >= MIN_MATCH_LENGTH
    /\ tokens[chunk + 1].length >= MIN_MATCH_LENGTH
    /\ Len(output) = cursors[chunk + 1]

\* A copy of a match token whose offset is less than its length has
\* ended: the trailing literal is about to be handled.
OverlapCopied ==
    /\ codec = "Lz77"
    /\ pc = "lz_next"
    /\ token.length > 0
    /\ token.offset >= 1
    /\ token.offset < token.length

\* The k bytes after the first `before` bytes of out repeat the `offset`
\* bytes before them cyclically.
Cyclic(out, before, offset, k) ==
    \A j \in 0..(k - 1) : out[before + j + 1] = out[before - offset + (j % offset) + 1]

\* C20 as stated: LZ77 overlapping copy.  When Lz77::decompress replays a
\* match token with 1 <= offset < length, the last offset bytes of the
\* output are repeated cyclically until length bytes have been appended.
C20_Lz77OverlapFullLength ==
    OverlapCopied =>
        /\ i = token.length
        /\ Len(output) = start + token.offset + token.length
        /\ Cyclic(output, start + token.offset, token.offset, token.length)

\* C20, amended: when Lz77::decompress replays a match token with
\* 1 <= offset < length, each byte the copy reads from the offset-th
\* iteration on was appended earlier in the same copy, and the last offset
\* bytes of the output are repeated cyclically until length bytes have
\* been appended or the output has reached the declared original length;
\* one byte b followed by a token with offset 1 and length L, copied in
\* full, gives L + 1 copies of b.
C20_Lz77Overlap ==
    /\ (codec = "Lz77" /\ pc = "lz_copy" /\ token.offset < token.length) =>
          /\ Len(output) = start + token.offset + i
          /\ Cyclic(output, start + token.offset, token.offset, i)
          /\ (i >= token.offset /\ copy_continues(i, token.length, output, original_len))
                => start + i >= start + token.offset
    /\ OverlapCopied =>
          /\ i = token.length \/ Len(output) = original_len
          /\ i <= token.length
          /\ Len(output) = start + token.offset + i
          /\ Cyclic(output, start + token.offset, token.offset, i)
          /\ (start = 0 /\ token.offset = 1 /\ i = token.length)
                => output = repeat_n(output[1], token.length + 1)

\* The decoder has copied in full a match token that compress wrote, whose
\* offset is at least 2 and less than its length.
C20_Witness ==
    /\ OverlapCopied
    /\ origin = "compress"
    /\ token.offset >= 2
    /\ i = token.length
    /\ Cyclic(output, start + token.offset, token.offset, i)

\* What a call returns when it runs alone on instance lz: the results of
\* taking its steps one after the other (several for Huffman::compress
\* when frequencies are equal).
RECURSIVE ResultsAlone(_, _)
ResultsAlone(lz, c) ==
    IF c.pc = "done" THEN {c.res}
    ELSE UNION { ResultsAlone(lz, n) : n \in CallSteps(lz, c) }

RECURSIVE IsFull(_)
IsFull(node) ==
    \/ node.kind = "Leaf"
    \/ /\ node.kind = "Internal"
       /\ DOMAIN node = {"kind", "frequency", "left", "right"}
       /\ IsFull(node.left)
       /\ IsFull(node.right)

\* The bytes of the leaves of the tree, left to right.
RECURSIVE Fringe(_)
Fringe(node) ==
    IF node.kind = "Leaf" THEN << node.byte >>
    ELSE Fringe(node.left) \o Fringe(node.right)

\* The distinct bytes of a buffer.
BytesOf(data) == {data[k] : k \in 1..Len(data)}

\* a is a prefix of b.
IsPrefix(a, b) == Len(a) <= Len(b) /\ SubSeq(b, 1, Len(a)) = a

\* Huffman::compress returned for a non-empty input.
HuffmanBuilt ==
    codec = "Huffman" /\ origin = "compress" /\ Compressed /\ input # <<>>

\* C21: for every non-empty input and every tie-break order, the tree
\* built by build_huffman_tree is full, has exactly one leaf for each
\* distinct byte of the input and no other leaf, and has root frequency
\* equal to the input length; the codes build_codes assigns are all at
\* least one bit long and none is a prefix of another.
C21_HuffmanTreeAndCodes ==
    HuffmanBuilt =>
        LET leaves == Fringe(tree)
            codes  == build_codes(tree, <<>>)
        IN  /\ IsFull(tree)
            /\ Len(leaves) = Cardinality(BytesOf(input))
            /\ BytesOf(leaves) = BytesOf(input)
            /\ tree.frequency = Len(input)
            /\ DOMAIN codes = BytesOf(input)
            /\ \A a \in DOMAIN codes : Len(codes[a]) >= 1
            /\ \A a, b \in DOMAIN codes :
                  a # b => ~IsPrefix(codes[a], codes[b])

\* C21 witness: compress built a tree for an input of at least three
\* distinct bytes where the tie-breaks allow more than one tree, and the
\* codes it gave are not all of one length.
C21_Witness ==
    /\ HuffmanBuilt
    /\ Cardinality(BytesOf(input)) >= 3
    /\ Cardinality(build_huffman_tree(build_frequency_table(input))) > 1
    /\ LET codes == build_codes(tree, <<>>)
       IN  \E a, b \in DOMAIN codes : Len(codes[a]) < Len(codes[b])

\* ---------------------------------------------------------------- C22

\* The sum of the code lengths of data[lo..hi] (1-based, both included).
RECURSIVE CodeLengths(_, _, _, _)
CodeLengths(codes, data, lo, hi) ==
    IF lo > hi THEN 0
    ELSE IF lo = hi THEN Len(codes[data[lo]])
    ELSE LET mid == (lo + hi) \div 2
         IN  CodeLengths(codes, data, lo, mid) + CodeLengths(codes, data, mid + 1, hi)

\* The value of 4 bytes read least significant first.
LittleEndian(b) ==
    b[1] + 256 * (b[2] + 256 * (b[3] + 256 * b[4]))

\* Bit j (1-based) of a bit sequence as a number, 0 beyond its end.
BitOr0(bs, j) == IF j <= Len(bs) /\ bs[j] THEN 1 ELSE 0

\* Byte k (1-based) of a bit sequence packed most significant bit first,
\* the bits beyond its end taken as 0.
PackedByte(bs, k) ==
    128 * BitOr0(bs, 8 * k - 7) + 64 * BitOr0(bs, 8 * k - 6)
      + 32 * BitOr0(bs, 8 * k - 5) + 16 * BitOr0(bs, 8 * k - 4)
      + 8 * BitOr0(bs, 8 * k - 3) + 4 * BitOr0(bs, 8 * k - 2)
      + 2 * BitOr0(bs, 8 * k - 1) + BitOr0(bs, 8 * k)

\* bytes are bs packed most significant bit first in ceil(len / 8) bytes,
\* the unused low bits of the last byte 0.
PackedMsbFirst(bs, bytes) ==
    /\ 8 * Len(bytes) >= Len(bs)
    /\ 8 * Len(bytes) < Len(bs) + 8
    /\ \A k \in 1..Len(bytes) : bytes[k] = PackedByte(bs, k)
    /\ Len(bytes) > 0 =>
          bytes[Len(bytes)] % shl1(8 * Len(bytes) - Len(bs)) = 0

\* buffer is the frame of data under the tree t: the tree in pre-order,
\* the two length fields and the packed codes.
IsHuffmanFrame(buffer, t, data) ==
    LET codes  == build_codes(t, <<>>)
        stream == encode_bits(codes, data, 1, Len(data))
        n      == Len(serialize_tree(t))
    IN  /\ Len(buffer) >= n + 8
        /\ SubSeq(buffer, 1, n) = serialize_tree(t)
        /\ \A k \in n + 1..n + 8 : buffer[k] \in 0..U8_MAX
        /\ LittleEndian(SubSeq(buffer, n + 1, n + 4)) = Len(data)
        /\ LittleEndian(SubSeq(buffer, n + 5, n + 8)) = CodeLengths(codes, data, 1, Len(data))
        /\ Len(stream) = CodeLengths(codes, data, 1, Len(data))
        /\ Len(buffer) = n + 8 + (Len(stream) + 7) \div 8
        /\ PackedMsbFirst(stream, SubSeq(buffer, n + 9, Len(buffer)))

\* C22: for every non-empty input B, compress(B) is the pre-order
\* serialized tree, then len(B) as 4 little-endian bytes, then the bit
\* count as 4 little-endian bytes, then the packed bits; the bit count is
\* the sum of the code lengths of the bytes of B, the packed bytes are
\* ceil(bit count / 8) many, packed most significant bit first with the
\* unused low bits of the last byte 0; and bytes_to_bits(bits_to_bytes(bits),
\* len(bits)) is bits for every bit sequence.
C22_HuffmanFraming ==
    /\ HuffmanBuilt =>
          /\ cres.ok
          /\ IsHuffmanFrame(cres.val, tree, input)
    /\ (origin = "bits" /\ pc \in {"unpack", "done"}) =>
          PackedMsbFirst(bits, buf)
    /\ (origin = "bits" /\ pc = "done") => dres = Ok(bits)

\* C22 witness: compress returned a frame whose tree has inner nodes and
\* whose codes fill more than one byte, the last one only in part.
C22_Witness ==
    /\ HuffmanBuilt
    /\ cres.ok
    /\ tree.kind = "Internal"
    /\ LET n == Len(serialize_tree(tree))
           nbits == LittleEndian(SubSeq(cres.val, n + 5, n + 8))
       IN  /\ nbits > 8
           /\ nbits % 8 # 0
           /\ Len(cres.val) = n + 8 + 2
           /\ cres.val[Len(cres.val)] # 0

\* bytes_to_bits gave back a sequence of more than 8 bits that ends in
\* the middle of a byte and whose last bit is 1.
BitsRoundTripped ==
    /\ origin = "bits"
    /\ pc = "done"
    /\ Len(bits) > 8
    /\ Len(bits) % 8 # 0
    /\ bits[Len(bits)]
    /\ dres = Ok(bits)

\* ---------------------------------------------------------------- C23

\* The caller's calls are over: compress returned Err, or decompress
\* returned Ok or Err.
Finished ==
    /\ pc = "done"
    /\ \/ cres # Pending /\ ~cres.ok
       \/ dres # Pending

\* The RLE encoder index and the LZ77 encoder cursor strictly increase
\* on every iteration and do not pass the input length.
EncodersAdvance ==
    /\ (pc = "rle_scan" /\ pc' = "rle_scan") =>
          i < i' /\ i' <= Len(input)
    /\ (pc = "lz_scan" /\ pc' = "lz_scan") =>
          position < position' /\ position' <= Len(input)

\* The decoders of RLE and LZ77 go through the chunks one by one: the
\* index moves by one at the end of a chunk's processing and not
\* otherwise, and the copy loop's counter moves by one per byte copied.
DecodersAdvance ==
    /\ (pc = "rle_loop" /\ pc' = "rle_loop") => chunk' = chunk + 1
    /\ (pc \in {"lz_loop", "lz_copy"} /\ pc' # "done") => chunk' = chunk
    /\ pc = "lz_next" => chunk' = chunk + 1 /\ pc' = "lz_loop"
    /\ (pc = "lz_copy" /\ pc' = "lz_copy") =>
          i' = i + 1 /\ i' <= token.length

\* Each iteration of the Huffman decode loop consumes one bit or appends
\* one output byte.
HuffmanAdvances ==
    (pc = "huff_loop" /\ pc' = "huff_loop") =>
        \/ bit_idx' = bit_idx + 1 /\ output' = output
        \/ bit_idx' = bit_idx /\ Len(output') = Len(output) + 1

\* The iterations of the Huffman decode loop so far, one per bit consumed
\* and one per byte appended, are at most declared length plus bit count;
\* the chunk indices stay within the chunks.
WithinBounds ==
    /\ pc = "huff_loop" =>
          /\ bit_idx <= Len(bits)
          /\ Len(output) <= original_len
          /\ bit_idx + Len(output) <= original_len + Len(bits)
    /\ pc = "rle_loop" => chunk <= rle_num_chunks(buf)
    /\ pc \in {"lz_loop", "lz_copy", "lz_next"} => chunk <= num_chunks(buf)

\* C23: every compress and decompress call of the three codecs finishes,
\* with Ok or Err, on every input: the RLE encoder index and the LZ77
\* encoder cursor strictly increase on every iteration until they reach
\* the input length, the LZ77 decoder processes each token once, and each
\* iteration of the Huffman decode loop consumes one bit or appends one
\* byte, at most declared length plus bit count iterations in all.
C23_Termination ==
    /\ <>Finished
    /\ [](origin = "compress" => <>(cres # Pending))
    /\ [][EncodersAdvance /\ DecodersAdvance /\ HuffmanAdvances]_vars
    /\ []WithinBounds

\* C23 witness: Huffman::decompress of a buffer that compress did not
\* write has returned after a loop that both consumed bits and appended
\* bytes and ran fewer iterations than declared length plus bit count.
C23_Witness ==
    /\ Finished
    /\ codec = "Huffman"
    /\ origin = "foreign"
    /\ dres # Pending
    /\ bit_idx > 1
    /\ Len(output) > 1
    /\ bit_idx + Len(output) < original_len + Len(bits)

====
